---- MODULE Spec2Model ----
(***************************************************************************)
(* Model of the rule-based chatbot of src/main.py: the static QUESTIONS    *)
(* graph and the POST /chat handler, driven by a client that sends a       *)
(* conversation history and an optional answer with every request.         *)
(*                                                                         *)
(* Python values are modelled as follows.  An Optional value is a sequence *)
(* of length 0 (None) or 1 (the value); a list is a sequence; a dict is a  *)
(* function; a pydantic model is a record.  An HTTPException is a response *)
(* whose status is not 200 and whose detail is the sequence of the parts   *)
(* of its message.                                                         *)
(***************************************************************************)
EXTENDS Naturals, Sequences, FiniteSets, TLC

VARIABLES
    questions,      \* the module-level QUESTIONS dict
    request,        \* the ChatRequest object as the handler leaves it
    sent_history,   \* the conversation_history the client put on the wire
    response,       \* what the handler answered to that request
    memo,           \* an earlier call, kept for comparison: <<>> or <<call>>
    walk,           \* traversal of the graph: the (question, answer) steps taken
    node            \* traversal of the graph: Optional id the steps lead to

vars == <<questions, request, sent_history, response, memo, walk, node>>

(***************************************************************************)
(* Bounds of the model.                                                    *)
(***************************************************************************)
\* Longest history a client builds by itself before it posts it.
MaxLen == 2
\* Longest traversal of the graph.
MaxSteps == 5

(***************************************************************************)
(* Optional values and dict lookups.                                       *)
(***************************************************************************)
None == <<>>

Some(v) == <<v>>

\* Python truthiness of an Optional[str]: neither None nor the empty string.
Truthy(opt) == opt # None /\ opt[1] # ""

\* dict.get(key): None when the key is missing.
Get(dict, key) == IF key \in DOMAIN dict THEN Some(dict[key]) ELSE None

\* value in list
InList(v, list) == \E i \in DOMAIN list : list[i] = v

Last(list) == list[Len(list)]

(***************************************************************************)
(* The question graph.                                                     *)
(***************************************************************************)
End == "end"

StartQuestionId == "q1_food_type"

Q1FoodType ==
    [ question |-> "What kind of food are you in the mood for?",
      options |-> <<"Italian", "Mexican", "Indian">>,
      next_question_map |->
        ( "Italian" :> "q2_italian_preference" @@
          "Mexican" :> "q2_mexican_spice" @@
          "Indian" :> "q2_indian_dish" ) ]

\* The node with the target of one transition misspelt.
Q2ItalianPreference_dangling ==
    [ question |-> "Do you prefer pasta or pizza?",
      options |-> <<"Pasta", "Pizza">>,
      next_question_map |->
        ( "Pasta" :> "q3_pasta_sauce" @@
          "Pizza" :> "q3_pizza_topping" ) ]

Q2ItalianPreference ==
    [ question |-> "Do you prefer pasta or pizza?",
      options |-> <<"Pasta", "Pizza">>,
      next_question_map |->
        ( "Pasta" :> "q3_pasta_sauce" @@
          "Pizza" :> "q3_pizza_toppings" ) ]

Q2MexicanSpice ==
    [ question |-> "Do you like your Mexican food spicy or mild?",
      options |-> <<"Spicy", "Mild">>,
      next_question_map |->
        ( "Spicy" :> "q3_mexican_dish" @@
          "Mild" :> "q3_mexican_dish" ) ]

\* The node with the key of one transition misspelt.
Q2IndianDish_typo ==
    [ question |-> "Great choice! Which Indian dish sounds good?",
      options |-> <<"Curry", "Biryani", "Naan with Dal">>,
      next_question_map |->
        ( "Curry" :> "end" @@
          "Biryani" :> "end" @@
          "Naan with Daal" :> "end" ) ]

Q2IndianDish ==
    [ question |-> "Great choice! Which Indian dish sounds good?",
      options |-> <<"Curry", "Biryani", "Naan with Dal">>,
      next_question_map |->
        ( "Curry" :> "end" @@
          "Biryani" :> "end" @@
          "Naan with Dal" :> "end" ) ]

Q3PastaSauce ==
    [ question |-> "Which pasta sauce would you prefer?",
      options |-> <<"Marinara", "Alfredo", "Pesto">>,
      next_question_map |->
        ( "Marinara" :> "end" @@
          "Alfredo" :> "end" @@
          "Pesto" :> "end" ) ]

Q3PizzaToppings ==
    [ question |-> "Any specific pizza toppings in mind?",
      options |-> <<"Pepperoni", "Mushrooms", "Vegetables">>,
      next_question_map |->
        ( "Pepperoni" :> "end" @@
          "Mushrooms" :> "end" @@
          "Vegetables" :> "end" ) ]

\* The last node with one transition leading back to an earlier question.
Q3MexicanDish_cyclic ==
    [ question |-> "What kind of Mexican dish are you thinking of?",
      options |-> <<"Tacos", "Burritos", "Enchiladas">>,
      next_question_map |->
        ( "Tacos" :> "end" @@
          "Burritos" :> "q2_mexican_spice" @@
          "Enchiladas" :> "end" ) ]

Q3MexicanDish ==
    [ question |-> "What kind of Mexican dish are you thinking of?",
      options |-> <<"Tacos", "Burritos", "Enchiladas">>,
      next_question_map |->
        ( "Tacos" :> "end" @@
          "Burritos" :> "end" @@
          "Enchiladas" :> "end" ) ]

QUESTIONS ==
    ( "q1_food_type" :> Q1FoodType ) @@
    ( "q2_italian_preference" :> Q2ItalianPreference ) @@
    ( "q2_mexican_spice" :> Q2MexicanSpice ) @@
    ( "q2_indian_dish" :> Q2IndianDish ) @@
    ( "q3_pasta_sauce" :> Q3PastaSauce ) @@
    ( "q3_pizza_toppings" :> Q3PizzaToppings ) @@
    ( "q3_mexican_dish" :> Q3MexicanDish )

(***************************************************************************)
(* Pydantic models.                                                        *)
(***************************************************************************)
ConversationEntry(question_id, answer) ==
    [question_id |-> question_id, answer |-> answer]

ChatRequest(user_input, conversation_history) ==
    [user_input |-> user_input, conversation_history |-> conversation_history]

ChatResponse(message, question_id, options, conversation_history, is_conversation_complete, final_summary) ==
    [ status |-> 200,
      detail |-> <<>>,
      message |-> message,
      question_id |-> question_id,
      options |-> options,
      conversation_history |-> conversation_history,
      is_conversation_complete |-> is_conversation_complete,
      final_summary |-> final_summary ]

\* A raised HTTPException: FastAPI answers with the status and the detail only.
HTTPException(status_code, detail) ==
    [ status |-> status_code,
      detail |-> detail,
      message |-> "",
      question_id |-> None,
      options |-> None,
      conversation_history |-> <<>>,
      is_conversation_complete |-> FALSE,
      final_summary |-> None ]

InvalidStateDetail == <<"Invalid state: Could not determine next question.">>

InvalidInputDetail(question, user_input, expected_options) ==
    <<"Invalid input for", question, user_input, "Please choose from", expected_options>>

InternalErrorDetail == <<"Chatbot internal error: Could not find next question.">>

CompleteMessage == "Thank you for your responses! Here's a summary of your preferences:"

\* Before the first request there is no response.
NoResponse == HTTPException(0, <<>>)

(***************************************************************************)
(* The chat handler, POST /chat.                                           *)
(***************************************************************************)
\* The handler's outcome: the response, and the request's list as it is left.
Outcome(resp, current_history) ==
    [response |-> resp, conversation_history |-> current_history]

\* An empty history taken as the start question waiting for its answer.
LastQuestionId_start(current_history) ==
    IF current_history # <<>>
    THEN Some(Last(current_history).question_id)
    ELSE Some(StartQuestionId)

\* The question the server asked last, kept on the server between requests.
LastQuestionId_session(current_history) ==
    IF response.question_id # None
    THEN response.question_id
    ELSE IF current_history # <<>>
    THEN Some(Last(current_history).question_id)
    ELSE None

\* Lines 135-140: the last entry's fields, None for an empty history.
LastQuestionId(current_history) ==
    IF current_history # <<>> THEN Some(Last(current_history).question_id) ELSE None

LastAnswer(current_history) ==
    IF current_history # <<>> THEN Some(Last(current_history).answer) ELSE None

\* "next_question_map" in config
HasNextQuestionMap(config) == "next_question_map" \in DOMAIN config

\* Lines 147-149: the transition of a question on an answer; the given
\* default when the question has no config, None when the answer has no
\* transition.
NextQuestionId(default, question_id, answer) ==
    LET prev_question_config == Get(questions, question_id)
    IN  IF prev_question_config # None /\ HasNextQuestionMap(prev_question_config[1])
        THEN Get(prev_question_config[1].next_question_map, answer)
        ELSE default

\* The last entry of the history left out of account.
NextFromHistory_start(last_question_id, last_answer) == Some(StartQuestionId)

\* Lines 143-152: the next question id that the history alone leads to;
\* None stands for the 400 raised at line 152.
NextFromHistory(last_question_id, last_answer) ==
    IF Truthy(last_question_id) /\ Truthy(last_answer)
    THEN NextQuestionId(Some(StartQuestionId), last_question_id[1], last_answer[1])
    ELSE Some(StartQuestionId)

\* Line 159: QUESTIONS[last_question_id].get("options", [])
ExpectedOptions(last_question_id) ==
    IF "options" \in DOMAIN questions[last_question_id]
    THEN questions[last_question_id].options
    ELSE <<>>

\* The test left out: any answer passes.
IsExpected_any(user_input, expected_options) == TRUE

\* Line 160: the test the submitted answer must pass.
IsExpected(user_input, expected_options) == InList(user_input, expected_options)

\* The call's keyword arguments exchanged.
AppendEntry_swapped(current_history, last_question_id, user_input) ==
    Append(current_history, [question_id |-> user_input, answer |-> last_question_id])

\* The entry put before the others.
AppendEntry_front(current_history, last_question_id, user_input) ==
    <<ConversationEntry(last_question_id, user_input)>> \o current_history

\* Lines 167-169: current_history.append(ConversationEntry(...))
AppendEntry(current_history, last_question_id, user_input) ==
    Append(current_history, ConversationEntry(last_question_id, user_input))

\* The test of line 172 inverted: always the branch of line 176.
NextFromInput_end(last_question_id, user_input) == Some(End)

\* Lines 171-176: the next question id after the newly added answer.
NextFromInput(last_question_id, user_input) ==
    LET next_question_config == Get(questions, last_question_id)
    IN  IF next_question_config # None /\ HasNextQuestionMap(next_question_config[1])
        THEN Get(next_question_config[1].next_question_map, user_input)
        ELSE Some(End)

\* Line 186: {entry.question_id: entry.answer for entry in current_history};
\* a later entry replaces an earlier one with the same question id.
RECURSIVE FoldSummary(_, _)
FoldSummary(current_history, n) ==
    IF n = 0 THEN <<>>
    ELSE (current_history[n].question_id :> current_history[n].answer)
            @@ FoldSummary(current_history, n - 1)

\* The first entry of a question id kept, where the dict keeps the last.
FinalSummary_first(current_history) ==
    [q \in {current_history[i].question_id : i \in DOMAIN current_history} |->
        current_history[CHOOSE i \in DOMAIN current_history :
            /\ current_history[i].question_id = q
            /\ \A j \in DOMAIN current_history :
                   current_history[j].question_id = q => i <= j].answer]

FinalSummary(current_history) == FoldSummary(current_history, Len(current_history))

\* Lines 183-208: the response for the determined next question id.
Respond(next_question_id, current_history) ==
    IF next_question_id = Some(End)
    THEN Outcome(ChatResponse(CompleteMessage, None, None, current_history,
                              TRUE, Some(FinalSummary(current_history))),
                 current_history)
    ELSE IF next_question_id # None /\ next_question_id[1] \in DOMAIN questions
    THEN LET next_question_config == questions[next_question_id[1]]
         IN  Outcome(ChatResponse(next_question_config.question, next_question_id,
                                  Some(next_question_config.options), current_history,
                                  FALSE, None),
                     current_history)
    ELSE Outcome(HTTPException(500, InternalErrorDetail), current_history)

\* Lines 154-181: validate the submitted answer, add it to the history.
ProcessInput(next_question_id, current_history, last_question_id, user_input) ==
    IF user_input # None
    THEN IF Truthy(last_question_id) /\ last_question_id[1] \in DOMAIN questions
         THEN LET expected_options == ExpectedOptions(last_question_id[1])
              IN  IF ~IsExpected(user_input[1], expected_options)
                  THEN Outcome(HTTPException(400,
                                   InvalidInputDetail(questions[last_question_id[1]].question,
                                                      user_input[1], expected_options)),
                               current_history)
                  ELSE Respond(NextFromInput(last_question_id[1], user_input[1]),
                               AppendEntry(current_history, last_question_id[1], user_input[1]))
         ELSE Respond(next_question_id, current_history)
    ELSE Respond(next_question_id, current_history)

\* Line 152, raised as a server-side fault.
RaiseInvalidState_500(current_history) ==
    Outcome(HTTPException(500, InvalidStateDetail), current_history)

\* Line 152: raise HTTPException(status_code=400, detail="Invalid state: ...")
RaiseInvalidState(current_history) ==
    Outcome(HTTPException(400, InvalidStateDetail), current_history)

\* Lines 126-208.
chat(conversation_history, user_input) ==
    LET current_history == conversation_history
        last_question_id == LastQuestionId(current_history)
        last_answer == LastAnswer(current_history)
        next_question_id == NextFromHistory(last_question_id, last_answer)
    IN  IF next_question_id = None
        THEN RaiseInvalidState(current_history)
        ELSE ProcessInput(next_question_id, current_history, last_question_id, user_input)

(***************************************************************************)
(* The client: what it may put in a request.                               *)
(***************************************************************************)
\* Question ids and answers of the entries a client writes by itself.
ClientQuestionIds ==
    {"q1_food_type", "q2_italian_preference", "q2_indian_dish", "q3_pizza_toppings",
     "q9_unknown"}

ClientAnswers == {"Italian", "Pizza", "Curry", ""}

ClientEntries ==
    {ConversationEntry(q, a) : q \in ClientQuestionIds, a \in ClientAnswers}

\* user_input: absent, an option of some question, or no option at all.
UserInputs ==
    {None, Some("Italian"), Some("Indian"), Some("Pizza"), Some("Mushrooms"),
     Some("Curry"), Some("Sushi"), Some("")}

\* The history the client holds: the one the server returned with its last
\* answer, or the one the client sent when the server refused it.
ClientHistory ==
    IF response.status = 200 THEN response.conversation_history ELSE sent_history

(***************************************************************************)
(* Actions.                                                                *)
(***************************************************************************)
Init ==
    /\ questions = QUESTIONS
    /\ request = ChatRequest(None, <<>>)
    /\ sent_history = <<>>
    /\ response = NoResponse
    /\ memo = None
    /\ walk = <<>>
    /\ node = Some(StartQuestionId)

\* The request handled with dict.pop in the place of dict.get at line 149:
\* the transition taken from the last entry is removed from QUESTIONS.
Post_pop(conversation_history, user_input) ==
    LET outcome == chat(conversation_history, user_input)
        q == LastQuestionId(conversation_history)
        a == LastAnswer(conversation_history)
    IN  /\ sent_history' = conversation_history
        /\ request' = ChatRequest(user_input, outcome.conversation_history)
        /\ response' = outcome.response
        /\ questions' =
               IF /\ Truthy(q)
                  /\ Truthy(a)
                  /\ q[1] \in DOMAIN questions
                  /\ a[1] \in DOMAIN questions[q[1]].next_question_map
               THEN [questions EXCEPT ![q[1]].next_question_map =
                        [k \in (DOMAIN questions[q[1]].next_question_map) \ {a[1]} |->
                            questions[q[1]].next_question_map[k]]]
               ELSE questions
        /\ UNCHANGED <<walk, node>>

\* One request to POST /chat and its response.
Post(conversation_history, user_input) ==
    LET outcome == chat(conversation_history, user_input)
    IN  /\ sent_history' = conversation_history
        /\ request' = ChatRequest(user_input, outcome.conversation_history)
        /\ response' = outcome.response
        /\ UNCHANGED <<questions, walk, node>>

\* The client starts a conversation: an empty history.
ChatStart ==
    /\ \E user_input \in UserInputs : Post(<<>>, user_input)
    /\ UNCHANGED memo

\* The client sends back the history it holds.
ChatEcho ==
    /\ Len(ClientHistory) <= MaxLen
    /\ \E user_input \in UserInputs : Post(ClientHistory, user_input)
    /\ UNCHANGED memo

\* The client adds an entry of its own to the history it holds and sends that.
ChatWithEntry ==
    /\ Len(ClientHistory) < MaxLen
    /\ \E entry \in ClientEntries, user_input \in UserInputs :
          Post(Append(ClientHistory, entry), user_input)
    /\ UNCHANGED memo

Next == ChatStart \/ ChatEcho \/ ChatWithEntry

Spec == Init /\ [][Next]_vars

(***************************************************************************)
(* The same requests, watched by an observer that remembers one earlier    *)
(* call (its inputs and its response) to compare later calls with.         *)
(***************************************************************************)
ObservedEntries ==
    { ConversationEntry("q1_food_type", "Italian"),
      ConversationEntry("q1_food_type", ""),
      ConversationEntry("q2_indian_dish", "Curry") }

ObservedInputs == {None, Some("Italian"), Some("Curry"), Some("Sushi")}

\* The call the state shows, as the observer records it.
CallRecord ==
    [ conversation_history |-> sent_history,
      user_input |-> request.user_input,
      response |-> response ]

\* The observer keeps what it remembers or takes the call just answered.
Observe ==
    \/ UNCHANGED memo
    \/ response.status # 0 /\ memo' = Some(CallRecord)

ObservedStart ==
    /\ \E user_input \in ObservedInputs : Post(<<>>, user_input)
    /\ Observe

ObservedEcho ==
    /\ Len(ClientHistory) <= MaxLen
    /\ \E user_input \in ObservedInputs : Post(ClientHistory, user_input)
    /\ Observe

ObservedWithEntry ==
    /\ Len(ClientHistory) < MaxLen
    /\ \E entry \in ObservedEntries, user_input \in ObservedInputs :
          Post(Append(ClientHistory, entry), user_input)
    /\ Observe

NextObserved == ObservedStart \/ ObservedEcho \/ ObservedWithEntry

SpecObserved == Init /\ [][NextObserved]_vars

(***************************************************************************)
(* Traversal of the static graph: from the start question, one transition  *)
(* per step on any answer, as lines 147-149 resolve it.                    *)
(***************************************************************************)
\* Every option label of the graph, and one answer that is no option.
WalkAnswers ==
    UNION { {QUESTIONS[q].options[i] : i \in DOMAIN QUESTIONS[q].options} :
            q \in DOMAIN QUESTIONS } \cup {"Unicorn"}

WalkStep ==
    /\ node # None
    /\ node[1] \in DOMAIN questions
    /\ Len(walk) < MaxSteps
    /\ \E answer \in WalkAnswers :
          /\ node' = NextQuestionId(None, node[1], answer)
          /\ walk' = Append(walk, ConversationEntry(node[1], answer))
    /\ UNCHANGED <<questions, request, sent_history, response, memo>>

NextGraph == WalkStep

SpecGraph == Init /\ [][NextGraph]_vars

(***************************************************************************)
(* Vocabulary of the properties.                                           *)
(***************************************************************************)
\* A request has been answered.
Called == response.status # 0

IsContinue == response.status = 200 /\ ~response.is_conversation_complete

IsComplete == response.status = 200 /\ response.is_conversation_complete

\* The 400 of line 161.
IsInvalidAnswer ==
    /\ response.status = 400
    /\ Len(response.detail) = 5
    /\ response.detail[1] = "Invalid input for"

\* The 400 of line 152 and the 500 of line 208.
IsCorruptHistory ==
    /\ response.status \in {400, 500}
    /\ Len(response.detail) = 1
    /\ response.detail[1] \in {InvalidStateDetail[1], InternalErrorDetail[1]}

\* The last entry of the history as sent names a question of the graph.
SentLastInGraph ==
    /\ sent_history # <<>>
    /\ Last(sent_history).question_id \in DOMAIN QUESTIONS

\* ... and its answer has a transition there.
SentLastHasTransition ==
    /\ SentLastInGraph
    /\ Last(sent_history).answer
           \in DOMAIN QUESTIONS[Last(sent_history).question_id].next_question_map

\* The response is the outcome of the graph's transition from q on answer a,
\* carrying the given history.
FollowsTransition(q, a, history) ==
    LET target == QUESTIONS[q].next_question_map[a]
    IN  /\ response.status = 200
        /\ response.conversation_history = history
        /\ IF target = "end"
           THEN /\ response.is_conversation_complete
                /\ response.question_id = None
                /\ response.options = None
                /\ response.message = CompleteMessage
           ELSE /\ ~response.is_conversation_complete
                /\ response.question_id = Some(target)
                /\ response.options = Some(QUESTIONS[target].options)
                /\ response.message = QUESTIONS[target].question
                /\ response.final_summary = None

\* Every entry names a question of the graph and one of its options.
WellFormedHistory(history) ==
    \A i \in DOMAIN history :
        /\ history[i].question_id \in DOMAIN QUESTIONS
        /\ InList(history[i].answer, QUESTIONS[history[i].question_id].options)

DistinctQuestionIds(history) ==
    \A i, j \in DOMAIN history :
        history[i].question_id = history[j].question_id => i = j

(***************************************************************************)
(* Properties.                                                             *)
(***************************************************************************)
\* C1: round-trip progression.  When the sent history ends with (q, ans),
\* ans leads from q to a question q' and the submitted answer is an option
\* of q', the call succeeds, appends (q', a) and returns the outcome of the
\* transition of q' on a.
C1_RoundTripProgression ==
    ( /\ Called
      /\ SentLastHasTransition
      /\ request.user_input # None
      /\ LET q == Last(sent_history).question_id
             target == QUESTIONS[q].next_question_map[Last(sent_history).answer]
         IN  /\ target # "end"
             /\ InList(request.user_input[1], QUESTIONS[target].options) )
    => LET q == Last(sent_history).question_id
           target == QUESTIONS[q].next_question_map[Last(sent_history).answer]
       IN  FollowsTransition(target, request.user_input[1],
               Append(sent_history, ConversationEntry(target, request.user_input[1])))

\* C2 as stated: for every non-empty history whose last entry names a
\* question of the graph and every submitted option of that question, the
\* call succeeds and returns the history with exactly the entry
\* (that question, the answer) appended.
C2_AppendOnValid_AsStated ==
    ( /\ Called
      /\ SentLastInGraph
      /\ request.user_input # None
      /\ InList(request.user_input[1],
                QUESTIONS[Last(sent_history).question_id].options) )
    => /\ response.status = 200
       /\ response.conversation_history =
              Append(sent_history,
                     ConversationEntry(Last(sent_history).question_id,
                                       request.user_input[1]))

\* C2 amended: the same, for the histories whose last answer has a
\* transition from its question.
C2_AppendOnValid ==
    ( /\ Called
      /\ SentLastHasTransition
      /\ request.user_input # None
      /\ InList(request.user_input[1],
                QUESTIONS[Last(sent_history).question_id].options) )
    => /\ response.status = 200
       /\ Len(response.conversation_history) = Len(sent_history) + 1
       /\ SubSeq(response.conversation_history, 1, Len(sent_history)) = sent_history
       /\ Last(response.conversation_history) =
              [question_id |-> Last(sent_history).question_id,
               answer |-> request.user_input[1]]

\* A history of two entries is returned with a third one after them.
C2_Witness ==
    /\ Called
    /\ SentLastHasTransition
    /\ Len(sent_history) = 2
    /\ sent_history[1] # sent_history[2]
    /\ request.user_input = Some("Pizza")
    /\ Len(response.conversation_history) = 3

\* C3 as stated: for every non-empty history whose last entry names a
\* question of the graph and every submitted answer that is no option of
\* it, the call fails with InvalidAnswer and the history is left as sent.
C3_Validation_AsStated ==
    ( /\ Called
      /\ SentLastInGraph
      /\ request.user_input # None
      /\ ~InList(request.user_input[1],
                 QUESTIONS[Last(sent_history).question_id].options) )
    => /\ IsInvalidAnswer
       /\ request.conversation_history = sent_history

\* C3 amended: the same, for the histories whose last answer has a
\* transition from its question.
C3_Validation ==
    ( /\ Called
      /\ SentLastHasTransition
      /\ request.user_input # None
      /\ ~InList(request.user_input[1],
                 QUESTIONS[Last(sent_history).question_id].options) )
    => /\ IsInvalidAnswer
       /\ ~IsContinue
       /\ ~IsComplete
       /\ request.conversation_history = sent_history
       /\ response.detail[2] = QUESTIONS[Last(sent_history).question_id].question
       /\ response.detail[3] = request.user_input[1]

\* "Sushi" is refused after (q1_food_type, Italian).
C3_Witness ==
    /\ sent_history = <<ConversationEntry("q1_food_type", "Italian")>>
    /\ request.user_input = Some("Sushi")
    /\ IsInvalidAnswer

\* C4 as stated, on its plainest case (no answer submitted, a history whose
\* entries all name a question and one of its options): whenever the
\* conversation is complete, the summary has one entry per entry of the
\* returned history, with its question and answer.
C4_SummaryCompleteness_AsStated ==
    (IsComplete /\ request.user_input = None /\ WellFormedHistory(sent_history)) =>
        LET history == response.conversation_history
            summary == response.final_summary[1]
        IN  /\ Cardinality(DOMAIN summary) = Len(history)
            /\ \A i \in DOMAIN history :
                   /\ history[i].question_id \in DOMAIN summary
                   /\ summary[history[i].question_id] = history[i].answer

\* C4 amended: whenever the conversation is complete, the summary has one
\* entry per question id of the returned history, with the answer of the
\* last entry of that id; when the question ids of the history are pairwise
\* distinct, that is one entry per history entry, question and answer.
C4_SummaryCompleteness ==
    IsComplete =>
        LET history == response.conversation_history
            summary == response.final_summary[1]
        IN  /\ DOMAIN summary = {history[i].question_id : i \in DOMAIN history}
            /\ \A i \in DOMAIN history :
                   (\A j \in DOMAIN history :
                        history[j].question_id = history[i].question_id => j <= i)
                   => summary[history[i].question_id] = history[i].answer
            /\ DistinctQuestionIds(history) =>
                   /\ Cardinality(DOMAIN summary) = Len(history)
                   /\ \A i \in DOMAIN history :
                          summary[history[i].question_id] = history[i].answer

\* A complete conversation of two different questions.
C4_Witness ==
    /\ IsComplete
    /\ Len(response.conversation_history) = 2
    /\ DistinctQuestionIds(response.conversation_history)
    /\ Cardinality(DOMAIN response.final_summary[1]) = 2

\* C5: an empty history is answered with the first question and an empty
\* history, whatever answer comes with it.
C5_Start ==
    (Called /\ sent_history = <<>>) =>
        /\ response.status = 200
        /\ ~response.is_conversation_complete
        /\ response.question_id = Some("q1_food_type")
        /\ response.message = "What kind of food are you in the mood for?"
        /\ response.options = Some(<<"Italian", "Mexican", "Indian">>)
        /\ response.conversation_history = <<>>
        /\ response.final_summary = None
        /\ request.conversation_history = <<>>

\* An empty history sent with an answer that is no option.
C5_Witness ==
    /\ Called
    /\ sent_history = <<>>
    /\ request.user_input = Some("Sushi")
    /\ IsContinue

\* C6: a last entry (q, ans) where q is in the graph and ans, any string, has
\* no transition from q makes the call fail with CorruptHistory.
C6_CorruptOnNoTransition ==
    (Called /\ SentLastInGraph /\ ~SentLastHasTransition) => IsCorruptHistory

\* C7: a last entry whose question id is not in the graph makes the call
\* fail with CorruptHistory (stated for the entries whose answer is not
\* empty, which pass the test of line 145).
C7_CorruptOnUnknownQuestion ==
    ( /\ Called
      /\ sent_history # <<>>
      /\ ~SentLastInGraph
      /\ Last(sent_history).answer # "" )
    => IsCorruptHistory

\* C9: a successful call on a history whose entries all name a question of
\* the graph and one of its options returns a history of such entries.
C9_HistoryInvariantPreserved ==
    (Called /\ WellFormedHistory(sent_history) /\ response.status = 200)
    => WellFormedHistory(response.conversation_history)

\* The call appended an entry to a well-formed history.
C9_Witness ==
    /\ Called
    /\ sent_history # <<>>
    /\ WellFormedHistory(sent_history)
    /\ response.status = 200
    /\ Len(response.conversation_history) = Len(sent_history) + 1

FollowsOptions ==
    \A i \in DOMAIN walk :
        InList(walk[i].answer, QUESTIONS[walk[i].question_id].options)

\* C10: terminal reachability.  A traversal from q1_food_type that takes an
\* option at every step is at "end" after at most three steps; before that
\* it is at a question it has not visited, which has an option to go on with.
C10_TerminalReachability ==
    FollowsOptions =>
        /\ node # None
        /\ Len(walk) <= 3
        /\ node # Some("end") =>
               /\ Len(walk) < 3
               /\ node[1] \in DOMAIN QUESTIONS
               /\ QUESTIONS[node[1]].options # <<>>
               /\ \A i \in DOMAIN walk : walk[i].question_id # node[1]

\* The longest traversal: three questions, then "end".
C10_Witness ==
    /\ FollowsOptions
    /\ Len(walk) = 3
    /\ walk[1].question_id = "q1_food_type"
    /\ node = Some("end")

\* C11: graph well-formedness.  For every node of QUESTIONS the keys of
\* next_question_map are exactly its option labels and every target is "end"
\* or a node of QUESTIONS; so each step of a traversal finds a transition
\* exactly when its answer is an option of its question.
C11_GraphWellFormed ==
    /\ \A q \in DOMAIN questions :
          /\ DOMAIN questions[q].next_question_map
                 = {questions[q].options[i] : i \in DOMAIN questions[q].options}
          /\ \A a \in DOMAIN questions[q].next_question_map :
                 \/ questions[q].next_question_map[a] = "end"
                 \/ questions[q].next_question_map[a] \in DOMAIN questions
    /\ walk # <<>> =>
          /\ node # None <=>
                 InList(Last(walk).answer, questions[Last(walk).question_id].options)
          /\ node # None => (node[1] = "end" \/ node[1] \in DOMAIN questions)

\* The traversal has gone through q2_indian_dish on its last option.
C11_Witness ==
    /\ Len(walk) = 2
    /\ walk[2] = ConversationEntry("q2_indian_dish", "Naan with Dal")
    /\ node = Some("end")

\* C12: the input history is not mutated.  After any call the list the
\* request carried has the entries it was sent with (stated for the
\* histories whose entries all name a question and one of its options).
C12_InputNotMutated ==
    (Called /\ WellFormedHistory(sent_history))
    => request.conversation_history = sent_history

\* C13: no submitted answer on a non-empty history whose last answer has a
\* transition from its question: the history is returned as sent, with the
\* outcome of that transition.
C13_NoAnswerFollowsHistory ==
    (Called /\ SentLastHasTransition /\ request.user_input = None)
    => /\ FollowsTransition(Last(sent_history).question_id,
                            Last(sent_history).answer, sent_history)
       /\ request.conversation_history = sent_history
       /\ IsComplete => response.final_summary # None

\* (q2_italian_preference, Pizza) sent last, without an answer.
C13_Witness ==
    /\ Called
    /\ Len(sent_history) = 2
    /\ Last(sent_history) = ConversationEntry("q2_italian_preference", "Pizza")
    /\ request.user_input = None
    /\ response.question_id = Some("q3_pizza_toppings")
    /\ response.conversation_history = sent_history

\* The call added an entry to the history it was sent.
Appended ==
    /\ Called
    /\ request.user_input # None
    /\ Len(request.conversation_history) = Len(sent_history) + 1

\* C14: whenever the call appends an entry, the result is the outcome of the
\* graph's transition on the appended pair, not on the entry before it.
C14_NextFromAppendedEntry ==
    Appended =>
        LET appended == Last(request.conversation_history)
        IN  /\ appended.answer = request.user_input[1]
            /\ appended.question_id \in DOMAIN QUESTIONS
            /\ appended.answer \in DOMAIN QUESTIONS[appended.question_id].next_question_map
            /\ FollowsTransition(appended.question_id, appended.answer,
                                 request.conversation_history)

\* The entry before leads to q2_italian_preference, the appended one to
\* q2_indian_dish.
C14_Witness ==
    /\ Appended
    /\ sent_history = <<ConversationEntry("q1_food_type", "Italian")>>
    /\ request.user_input = Some("Indian")
    /\ response.question_id = Some("q2_indian_dish")

C18_InternalErrorUnreachable ==
    Called =>
        /\ response.status \in {200, 400}
        /\ response.status # 500
        /\ ~(Len(response.detail) = 1 /\ response.detail[1] = InternalErrorDetail[1])
        /\ response.status = 200 =>
               \/ response.is_conversation_complete
               \/ response.question_id[1] \in DOMAIN QUESTIONS

\* A history that names no question of the graph, sent with an answer.
C18_Witness ==
    /\ Called
    /\ Len(sent_history) = 2
    /\ ~SentLastInGraph
    /\ request.user_input = Some("Mushrooms")
    /\ IsContinue

====
